---- MODULE Spec2Model ----
(***************************************************************************)
(* Model of "04 URL Security Check/securityCheck.py": the main guard that  *)
(* reads the URL list, samples it, splits it into shards and starts one    *)
(* thread per non-empty shard, thread_work with check_url_validity and     *)
(* check_url_security, the three shared result tables and the report step. *)
(*                                                                         *)
(* A URL is a record (scheme, rest, wellformed): rest is what              *)
(* url.split('//')[1] returns, wellformed is the verdict of                *)
(* validators.url.  One line of scanner output is a sequence of tokens: a  *)
(* piece of text, a marker word, a colour escape ("Col") or another CSI    *)
(* escape ("Csi"); substring search is search for a token.                 *)
(***************************************************************************)
EXTENDS Integers, Sequences, FiniteSets, TLC

\* ------------------------------------------------------------ bounds
MaxUrls == 2
MaxLines == 2
MaxThreads == 2
MaxCpu == 3
MaxSample == 21

\* ------------------------------------------------------------ data
UrlA == [scheme |-> "https", rest |-> "a", wellformed |-> TRUE]
UrlB == [scheme |-> "https", rest |-> "b", wellformed |-> TRUE]
UrlBad == [scheme |-> "", rest |-> "bad", wellformed |-> FALSE]
Urls == {UrlA, UrlB, UrlBad}

\* The lists an input file of 1..MaxUrls rows can hold.
Inputs == UNION {[1..m -> Urls] : m \in 1..MaxUrls}

\* A long input list (for sampling): its rows cycle through Urls.
CycleUrl(p) == CASE p % 3 = 1 -> UrlA [] p % 3 = 2 -> UrlB [] OTHER -> UrlBad
InputOfLen(m) == [p \in 1..m |-> CycleUrl(p)]

Lanes == 1..MaxThreads

\* Output lines of the external scanner, as sequences of tokens: "Col" is a
\* colour sequence (ESC [ ... m), "Csi" any other CSI sequence (ESC [ K, a
\* cursor movement, ...).
Lines ==
  { <<"Start", "a">>,
    <<"Start", "b">>,
    <<"Overall Grade", "A+">>,
    <<"Col", "Overall Grade", "Col", "A+", "Col">>,
    <<"Overall Grade", "Csi", "A+">>,
    <<"Grade cap reasons", "txt">>,
    <<"Grade warning", "txt">>,
    <<"txt">> }

\* Values process.wait() returns.
ExitCodes == {0, 1, 2}

\* ------------------------------------------------------------ helpers
Max(S) == CHOOSE x \in S : \A y \in S : y <= x
Min2(a, b) == IF a <= b THEN a ELSE b

\* "tok in line"
Contains(line, tok) == \E p \in 1..Len(line) : line[p] = tok

IsEscape(tok) == tok \in {"Col", "Csi"}
IsColour(tok) == tok = "Col"
NotEscape(tok) == ~IsEscape(tok)
NotColour(tok) == ~IsColour(tok)

\* re.compile(r'\x1B\[[0-?]*[ -/]*[@-~]').sub('', line)
StripAnsi(line) == SelectSeq(line, NotEscape)

\* re.sub(r'\x1b\[[0-9;]*m', '', value)
StripColour(value) == SelectSeq(value, NotColour)

\* line.split(label)[-1]: what follows the last occurrence of label, the
\* whole line when label does not occur.
SplitLast(line, label) ==
  LET at == {p \in 1..Len(line) : line[p] = label}
  IN IF at = {} THEN line ELSE SubSeq(line, Max(at) + 1, Len(line))

\* str(line.split(label)[-1].strip()) followed by the colour re.sub
Extract(line, label) == StripColour(SplitLast(line, label))

\* url.split('//')[1]
UrlRest(url) == url.rest

\* validators.url(url) == True
ValidatorsUrl(url) == url.wellformed

\* "Start" in line and url.split('//')[1] in line
IsStartMarker(line, url) == Contains(line, "Start") /\ Contains(line, UrlRest(url))

\* df.loc[key] = row, with key read earlier as len(df): a new row when key is
\* the length, the row of that label replaced when the table grew meanwhile.
SetLoc(df, key, row) ==
  IF key >= Len(df) THEN Append(df, row) ELSE [df EXCEPT ![key + 1] = row]

\* sample_size = max(1, len(urls) // 10)
SampleSize(m) == IF m \div 10 >= 1 THEN m \div 10 ELSE 1

\* np.array_split(urls, threads): the first len % threads parts hold one row more.
PartLen(m, t, j) == (m \div t) + (IF j <= m % t THEN 1 ELSE 0)
PartStart(m, t, j) == (j - 1) * (m \div t) + Min2(j - 1, m % t)
ArraySplit(s, t) ==
  [j \in 1..t |->
     SubSeq(s, PartStart(Len(s), t, j) + 1,
               PartStart(Len(s), t, j) + PartLen(Len(s), t, j))]

\* list(part[0]): column 0 of a DataFrame part (every row), but the first row
\* of a part of the sampled list, which array_split turned into a 2-D array.
WorkList(part, fromSample) == IF fromSample THEN <<part[1]>> ELSE part

\* threads as lines 447-454 leave it.
ThreadCount(cpu) ==
  LET byCpu == IF cpu > 1 THEN cpu - 1 ELSE cpu
  IN 1

\* ------------------------------------------------------------ state
VARIABLES
  nfiles,          \* files in Files_Security_Check (besides .gitignore)
  config,          \* what config.JSON holds
  file,            \* rows of the input file
  check_all,       \* config["checkAll"]
  cpu_count,       \* multiprocessing.cpu_count()
  mainpc,          \* position of the main thread
  urls,            \* the global urls
  sampled,         \* urls is the list sample_urls returned
  sample_list,     \* positions random.sample has drawn so far
  threads,
  spawned,         \* parts the start loop has handled
  pc,              \* position of each lane
  data,            \* thread_work's argument
  k,               \* rows of data the lane's for loop has taken
  check_started, overall_grade, grade_cap_reasons, grade_warning,
  nread,           \* lines read from the current process
  graded,          \* a line with a grade label was among them
  key,             \* len(df) as evaluated for the pending df.loc[len(df)] = row
  return_code,
  logfile,         \* name of the log file the lane has open, "" when none
  invalid_url, security_check_failed, security_check_successful,
  running,         \* <<lane, k>> of processes started and not waited for
  opened,          \* <<lane, k>> for which the log file was opened
  launched,        \* <<lane, k>> for which Popen was called
  appended,        \* finished df.loc assignments per table
  report           \* rows create_report wrote

mainVars == <<nfiles, config, file, check_all, cpu_count, mainpc, urls,
              sampled, sample_list,
              threads, spawned, report>>
laneVars == <<pc, data, k, check_started, overall_grade, grade_cap_reasons,
              grade_warning, nread, graded, key, return_code, logfile>>
tableVars == <<invalid_url, security_check_failed, security_check_successful,
               appended>>
histVars == <<running, opened, launched>>
vars == <<mainVars, laneVars, tableVars, histVars>>

NoTables == [invalid |-> 0, failed |-> 0, successful |-> 0]

\* config.JSON: whether it can be opened and parsed, the keys it holds and
\* the value of checkAll.
ConfigKeys == {"checkAll", "receiver_mail"}
Configs ==
  {[ok |-> FALSE, keys |-> {}, checkAll |-> FALSE]}
    \cup {[ok |-> TRUE, keys |-> ks, checkAll |-> FALSE] :
            ks \in SUBSET {"receiver_mail"}}
    \cup {[ok |-> TRUE, keys |-> ks \cup {"checkAll"}, checkAll |-> all] :
            ks \in SUBSET {"receiver_mail"}, all \in BOOLEAN}

\* A complete config.JSON with the given checkAll.
FullConfig(all) == [ok |-> TRUE, keys |-> ConfigKeys, checkAll |-> all]

\* The state in which the main thread stands at `at`, no thread started yet.
Boot(f, all, cpu, at, u, s, drawn, t) ==
  /\ file = f
  /\ check_all = all
  /\ cpu_count = cpu
  /\ mainpc = at
  /\ urls = u
  /\ sampled = s
  /\ sample_list = drawn
  /\ threads = t
  /\ spawned = 0
  /\ pc = [i \in Lanes |-> "none"]
  /\ data = [i \in Lanes |-> <<>>]
  /\ k = [i \in Lanes |-> 0]
  /\ check_started = [i \in Lanes |-> FALSE]
  /\ overall_grade = [i \in Lanes |-> <<>>]
  /\ grade_cap_reasons = [i \in Lanes |-> <<>>]
  /\ grade_warning = [i \in Lanes |-> <<>>]
  /\ nread = [i \in Lanes |-> 0]
  /\ graded = [i \in Lanes |-> FALSE]
  /\ key = [i \in Lanes |-> 0]
  /\ return_code = [i \in Lanes |-> 0]
  /\ logfile = [i \in Lanes |-> ""]
  /\ invalid_url = <<>>
  /\ security_check_failed = <<>>
  /\ security_check_successful = <<>>
  /\ running = {}
  /\ opened = {}
  /\ launched = {}
  /\ appended = NoTables
  /\ report = <<>>

\* The read_file call (line 437), for any file, configuration and host.
Init ==
  \E f \in Inputs, all \in BOOLEAN, cpu \in 1..MaxCpu :
    /\ Boot(f, all, cpu, "read", <<>>, FALSE, <<>>, 0)
    /\ nfiles = 1
    /\ config = FullConfig(all)

\* ------------------------------------------------------------ main thread
\* The directory listing (lines 424-431): exactly one file, or sys.exit.
MainFiles ==
  /\ mainpc = "files"
  /\ mainpc' = IF nfiles = 1 THEN "config" ELSE "exit_nofile"
  /\ UNCHANGED <<nfiles, config, file, check_all, cpu_count, urls, sampled,
                 sample_list, threads, spawned, report, laneVars, tableVars,
                 histVars>>

\* open("config.JSON"), json.load and config[name] succeed.
ConfigHas(name) == config.ok /\ name \in config.keys

\* The first read of config.JSON (lines 433-435); an exception ends the run.
MainConfig ==
  /\ mainpc = "config"
  /\ IF ConfigHas("checkAll")
       THEN /\ check_all' = config.checkAll
            /\ mainpc' = "read"
       ELSE /\ mainpc' = "abort_config"
            /\ UNCHANGED check_all
  /\ UNCHANGED <<nfiles, config, file, cpu_count, urls, sampled, sample_list,
                 threads, spawned, report, laneVars, tableVars, histVars>>

\* The second read of config.JSON, after create_report (lines 476-482).
MainConfigAgain ==
  /\ mainpc = "done"
  /\ mainpc' = IF ConfigHas("receiver_mail") THEN "mail" ELSE "abort_config"
  /\ UNCHANGED <<nfiles, config, file, check_all, cpu_count, urls, sampled,
                 sample_list, threads, spawned, report, laneVars, tableVars,
                 histVars>>

\* send_report when asked for, and archive_file (lines 484-490).
MainFinish ==
  /\ mainpc = "mail"
  /\ mainpc' = "finished"
  /\ UNCHANGED <<nfiles, config, file, check_all, cpu_count, urls, sampled,
                 sample_list, threads, spawned, report, laneVars, tableVars,
                 histVars>>

\* urls = read_file(filepath)  (line 437)
MainRead ==
  /\ mainpc = "read"
  /\ urls' = file
  /\ mainpc' = IF check_all THEN "threads" ELSE "sample"
  /\ UNCHANGED <<nfiles, config, file, check_all, cpu_count,
                 sampled, sample_list, threads,
                 spawned, report, laneVars, tableVars, histVars>>

\* Variant: positions drawn with replacement (random.choices).
SampleCandidatesWithReplacement(m, chosen) == 1..m

\* random.sample draws positions without replacement.
SampleCandidates(m, chosen) == (1..m) \ {chosen[j] : j \in 1..Len(chosen)}

\* One draw of random.sample(urls, sample_size)  (lines 136-137)
MainSamplePick ==
  /\ mainpc = "sample"
  /\ Len(sample_list) < SampleSize(Len(urls))
  /\ \E p \in SampleCandidates(Len(urls), sample_list) :
       sample_list' = Append(sample_list, p)
  /\ UNCHANGED <<nfiles, config, file, check_all, cpu_count,
                 mainpc, urls, sampled, threads,
                 spawned, report, laneVars, tableVars, histVars>>

\* urls = sample_urls(urls.values.tolist())  (lines 139, 440)
MainSampleDone ==
  /\ mainpc = "sample"
  /\ Len(sample_list) = SampleSize(Len(urls))
  /\ urls' = [j \in 1..Len(sample_list) |-> urls[sample_list[j]]]
  /\ sampled' = TRUE
  /\ mainpc' = "threads"
  /\ UNCHANGED <<nfiles, config, file, check_all, cpu_count,
                 sample_list, threads, spawned,
                 report, laneVars, tableVars, histVars>>

\* lines 447-454
MainThreads ==
  /\ mainpc = "threads"
  /\ threads' = ThreadCount(cpu_count)
  /\ mainpc' = "start"
  /\ UNCHANGED <<nfiles, config, file, check_all, cpu_count,
                 urls, sampled, sample_list,
                 spawned, report, laneVars, tableVars, histVars>>

\* One turn of the start loop (lines 457-467): a thread for a non-empty part.
MainStartThread ==
  /\ mainpc = "start"
  /\ spawned < threads
  /\ LET i == spawned + 1
         part == ArraySplit(urls, threads)[i]
     IN /\ spawned' = i
        /\ IF Len(part) > 0
             THEN /\ pc' = [pc EXCEPT ![i] = "loop"]
                  /\ data' = [data EXCEPT ![i] = WorkList(part, sampled)]
             ELSE UNCHANGED <<pc, data>>
  /\ UNCHANGED <<nfiles, config, file, check_all, cpu_count, mainpc, urls,
                 sampled, sample_list, threads, report, k, check_started,
                 overall_grade, grade_cap_reasons, grade_warning, nread,
                 graded, key, return_code, logfile, tableVars, histVars>>

\* A thread that join() returns for: it was started and has ended, by
\* returning from thread_work or by an exception that left it.
Joined(i) == pc[i] \in {"none", "done", "dead"}

\* for thread in thread_list: thread.join()  (lines 470-471)
MainJoin ==
  /\ mainpc = "start"
  /\ spawned = threads
  /\ \A i \in Lanes : Joined(i)
  /\ mainpc' = "report"
  /\ UNCHANGED <<nfiles, config, file, check_all, cpu_count,
                 urls, sampled, sample_list,
                 threads, spawned, report, laneVars, tableVars, histVars>>

\* create_report (lines 296-305)
MainReport ==
  /\ mainpc = "report"
  /\ report' = invalid_url \o security_check_failed \o security_check_successful
  /\ mainpc' = "done"
  /\ UNCHANGED <<nfiles, config, file, check_all, cpu_count,
                 urls, sampled, sample_list,
                 threads, spawned, laneVars, tableVars, histVars>>

\* ------------------------------------------------------------ lanes
\* The URL the lane is handling.
Url(i) == data[i][k[i]]

\* The locals of check_url_security as lines 208-214 set them (and as they
\* are left behind when the function is left).
ResetLocals(i) ==
  /\ check_started' = [check_started EXCEPT ![i] = FALSE]
  /\ overall_grade' = [overall_grade EXCEPT ![i] = <<>>]
  /\ grade_cap_reasons' = [grade_cap_reasons EXCEPT ![i] = <<>>]
  /\ grade_warning' = [grade_warning EXCEPT ![i] = <<>>]
  /\ nread' = [nread EXCEPT ![i] = 0]
  /\ graded' = [graded EXCEPT ![i] = FALSE]

\* thread_work's for loop is exhausted (line 404).
LaneFinish(i) ==
  /\ pc[i] = "loop"
  /\ k[i] = Len(data[i])
  /\ pc' = [pc EXCEPT ![i] = "done"]
  /\ UNCHANGED <<mainVars, data, k, check_started, overall_grade,
                 grade_cap_reasons, grade_warning, nread, graded, key,
                 return_code,
                 logfile, tableVars, histVars>>

\* Variant: the verdict of validators.url is not looked at.
CheckUrlValidityUnchecked(i) ==
  /\ pc[i] = "loop"
  /\ k[i] < Len(data[i])
  /\ k' = [k EXCEPT ![i] = k[i] + 1]
  /\ pc' = [pc EXCEPT ![i] = "open"]
  /\ UNCHANGED <<mainVars, data, check_started, overall_grade,
                 grade_cap_reasons, grade_warning, nread, graded, key,
                 return_code, logfile, tableVars, histVars>>

\* The next URL of the loop and check_url_validity up to where it reads
\* len(invalid_url)  (lines 404-408, 159-162).
CheckUrlValidity(i) ==
  /\ pc[i] = "loop"
  /\ k[i] < Len(data[i])
  /\ k' = [k EXCEPT ![i] = k[i] + 1]
  /\ IF ValidatorsUrl(data[i][k[i] + 1])
       THEN /\ pc' = [pc EXCEPT ![i] = "open"]
            /\ UNCHANGED key
       ELSE /\ pc' = [pc EXCEPT ![i] = "invalid_write"]
            /\ key' = [key EXCEPT ![i] = Len(invalid_url)]
  /\ UNCHANGED <<mainVars, data, check_started, overall_grade,
                 grade_cap_reasons, grade_warning, nread, graded,
                 return_code, logfile,
                 tableVars, histVars>>

\* Variant: the invalid URL is recorded and scanned all the same.
InvalidWriteThenScan(i) ==
  /\ pc[i] = "invalid_write"
  /\ invalid_url' = SetLoc(invalid_url, key[i], <<Url(i), "Invalid URL">>)
  /\ appended' = [appended EXCEPT !.invalid = @ + 1]
  /\ key' = [key EXCEPT ![i] = 0]
  /\ pc' = [pc EXCEPT ![i] = "open"]
  /\ UNCHANGED <<mainVars, data, k, check_started, overall_grade,
                 grade_cap_reasons, grade_warning, nread, graded, return_code,
                 logfile, security_check_failed, security_check_successful,
                 histVars>>

\* invalid_url.loc[...] = url, "Invalid URL"; return False; continue
\* (lines 162-163, 409-410)
InvalidWrite(i) ==
  /\ pc[i] = "invalid_write"
  /\ invalid_url' = SetLoc(invalid_url, key[i], <<Url(i), "Invalid URL">>)
  /\ appended' = [appended EXCEPT !.invalid = @ + 1]
  /\ key' = [key EXCEPT ![i] = 0]
  /\ pc' = [pc EXCEPT ![i] = "loop"]
  /\ UNCHANGED <<mainVars, data, k, check_started, overall_grade,
                 grade_cap_reasons, grade_warning, nread, graded, return_code,
                 logfile, security_check_failed, security_check_successful,
                 histVars>>

\* check_url_security up to the first read: the log file is opened and the
\* process started (lines 208-224).
LaunchOk(i) ==
  /\ pc[i] = "open"
  /\ ResetLocals(i)
  /\ logfile' = [logfile EXCEPT ![i] = UrlRest(Url(i))]
  /\ opened' = opened \cup {<<i, k[i]>>}
  /\ launched' = launched \cup {<<i, k[i]>>}
  /\ running' = running \cup {<<i, k[i]>>}
  /\ pc' = [pc EXCEPT ![i] = "read"]
  /\ UNCHANGED <<mainVars, data, k, key, return_code, tableVars>>

\* subprocess.Popen raises (line 224): the with block closes the log file and
\* the exception leaves check_url_security and thread_work, which catch
\* nothing: the thread ends.
LaunchError(i) ==
  /\ pc[i] = "open"
  /\ opened' = opened \cup {<<i, k[i]>>}
  /\ pc' = [pc EXCEPT ![i] = "dead"]
  /\ UNCHANGED <<mainVars, data, k, check_started, overall_grade,
                 grade_cap_reasons, grade_warning, nread, graded, key,
                 return_code,
                 logfile, tableVars, running, launched>>

\* The line holds one of the three grade labels.
HasGradeLabel(line) ==
  \E label \in {"Overall Grade", "Grade cap reasons", "Grade warning"} :
    Contains(line, label)

\* Lines 244-252 for one line of output.
ParseGrades(i, line) ==
  IF Contains(StripAnsi(line), "Overall Grade")
    THEN /\ overall_grade' =
              [overall_grade EXCEPT ![i] = Extract(line, "Overall Grade")]
         /\ UNCHANGED <<grade_cap_reasons, grade_warning>>
    ELSE IF Contains(line, "Grade cap reasons")
      THEN /\ grade_cap_reasons' =
                [grade_cap_reasons EXCEPT ![i] = Extract(line, "Grade cap reasons")]
           /\ UNCHANGED <<overall_grade, grade_warning>>
      ELSE IF Contains(line, "Grade warning")
        THEN /\ grade_warning' =
                  [grade_warning EXCEPT ![i] = Extract(line, "Grade warning")]
             /\ UNCHANGED <<overall_grade, grade_cap_reasons>>
        ELSE UNCHANGED <<overall_grade, grade_cap_reasons, grade_warning>>

\* Variant: the early return leaves the log file open.
DuplicateStartLogOpen(i) ==
  /\ ResetLocals(i)
  /\ UNCHANGED logfile
  /\ pc' = [pc EXCEPT ![i] = "loop"]

\* A second start marker (lines 234-239): return, out of the with block,
\* without process.wait() and without a row in any table; thread_work goes on.
DuplicateStart(i) ==
  /\ ResetLocals(i)
  /\ logfile' = [logfile EXCEPT ![i] = ""]
  /\ pc' = [pc EXCEPT ![i] = "loop"]

\* One turn of "for line in process.stdout" (lines 225-252).
ReadLine(i) ==
  /\ pc[i] = "read"
  /\ nread[i] < MaxLines
  /\ \E line \in Lines :
       IF IsStartMarker(line, Url(i)) /\ check_started[i]
         THEN DuplicateStart(i)
         ELSE /\ check_started' =
                   [check_started EXCEPT ![i] = @ \/ IsStartMarker(line, Url(i))]
              /\ ParseGrades(i, line)
              /\ nread' = [nread EXCEPT ![i] = @ + 1]
              /\ graded' = [graded EXCEPT ![i] = @ \/ HasGradeLabel(line)]
              /\ UNCHANGED <<logfile, pc>>
  /\ UNCHANGED <<mainVars, data, k, key, return_code, tableVars, histVars>>

\* The output ends: the with block is left (lines 225, 253).
\* An exception inside the for loop of lines 225-252 (the output cannot be
\* decoded, the log cannot be written): the with block closes the log, the
\* process is left as it is, and the exception ends the thread.
ReadError(i) ==
  /\ pc[i] = "read"
  /\ logfile' = [logfile EXCEPT ![i] = ""]
  /\ pc' = [pc EXCEPT ![i] = "dead"]
  /\ UNCHANGED <<mainVars, data, k, check_started, overall_grade,
                 grade_cap_reasons, grade_warning, nread, graded, key,
                 return_code, tableVars, histVars>>

ReadEof(i) ==
  /\ pc[i] = "read"
  /\ logfile' = [logfile EXCEPT ![i] = ""]
  /\ pc' = [pc EXCEPT ![i] = "wait"]
  /\ UNCHANGED <<mainVars, data, k, check_started, overall_grade,
                 grade_cap_reasons, grade_warning, nread, graded, key,
                 return_code,
                 tableVars, histVars>>

\* Variant: only exit status 1 counts as a failure.
TableForExitOne(rc) == IF rc = 1 THEN "failed_write" ELSE "successful_write"

\* The table the return code selects (line 257).
TableFor(rc) == IF rc # 0 THEN "failed_write" ELSE "successful_write"

\* Variant: a scan whose start marker was never read counts as failed.
WaitStartRequired(i) ==
  /\ pc[i] = "wait"
  /\ \E rc \in ExitCodes :
       LET to == IF check_started[i] THEN TableFor(rc) ELSE "failed_write"
       IN /\ return_code' = [return_code EXCEPT ![i] = rc]
          /\ pc' = [pc EXCEPT ![i] = to]
          /\ key' = [key EXCEPT ![i] =
                       IF to = "failed_write"
                         THEN Len(security_check_failed)
                         ELSE Len(security_check_successful)]
  /\ running' = running \ {<<i, k[i]>>}
  /\ UNCHANGED <<mainVars, data, k, check_started, overall_grade,
                 grade_cap_reasons, grade_warning, nread, graded, logfile,
                 tableVars, opened, launched>>

\* return_code = process.wait() and the branch on it up to where len(df) is
\* read (lines 254-258, 262).
Wait(i) ==
  /\ pc[i] = "wait"
  /\ \E rc \in ExitCodes :
       /\ return_code' = [return_code EXCEPT ![i] = rc]
       /\ pc' = [pc EXCEPT ![i] = TableFor(rc)]
       /\ key' = [key EXCEPT ![i] =
                    IF TableFor(rc) = "failed_write"
                      THEN Len(security_check_failed)
                      ELSE Len(security_check_successful)]
  /\ running' = running \ {<<i, k[i]>>}
  /\ UNCHANGED <<mainVars, data, k, check_started, overall_grade,
                 grade_cap_reasons, grade_warning, nread, graded, logfile,
                 tableVars,
                 opened, launched>>

\* The row of line 258: a scalar assigned to a row fills both columns.
FailedRow(i) == <<Url(i), Url(i)>>

\* The row of line 262.
SuccessfulRow(i) ==
  <<Url(i), "Success", overall_grade[i], grade_cap_reasons[i], grade_warning[i]>>

\* security_check_failed.loc[...] = url; return False  (lines 258-260)
FailedWrite(i) ==
  /\ pc[i] = "failed_write"
  /\ security_check_failed' = SetLoc(security_check_failed, key[i], FailedRow(i))
  /\ appended' = [appended EXCEPT !.failed = @ + 1]
  /\ ResetLocals(i)
  /\ key' = [key EXCEPT ![i] = 0]
  /\ return_code' = [return_code EXCEPT ![i] = 0]
  /\ pc' = [pc EXCEPT ![i] = "loop"]
  /\ UNCHANGED <<mainVars, data, k, logfile, invalid_url,
                 security_check_successful, histVars>>

\* security_check_successful.loc[...] = ...; return True  (lines 262-264)
SuccessfulWrite(i) ==
  /\ pc[i] = "successful_write"
  /\ security_check_successful' =
       SetLoc(security_check_successful, key[i], SuccessfulRow(i))
  /\ appended' = [appended EXCEPT !.successful = @ + 1]
  /\ ResetLocals(i)
  /\ key' = [key EXCEPT ![i] = 0]
  /\ return_code' = [return_code EXCEPT ![i] = 0]
  /\ pc' = [pc EXCEPT ![i] = "loop"]
  /\ UNCHANGED <<mainVars, data, k, logfile, invalid_url,
                 security_check_failed, histVars>>

\* ------------------------------------------------------------ specifications
\* A process that check_url_security has left behind without process.wait()
\* (lines 236-239, or an exception) ends on its own, sooner or later or never.
ProcessExits(i, j) ==
  /\ <<i, j>> \in running
  /\ ~(k[i] = j /\ pc[i] \in {"read", "wait"})
  /\ running' = running \ {<<i, j>>}
  /\ UNCHANGED <<mainVars, laneVars, tableVars, opened, launched>>

Lane(i) ==
  \/ LaneFinish(i)
  \/ CheckUrlValidity(i)
  \/ InvalidWrite(i)
  \/ LaunchOk(i)
  \/ LaunchError(i)
  \/ ReadLine(i)
  \/ ReadError(i)
  \/ ReadEof(i)
  \/ Wait(i)
  \/ FailedWrite(i)
  \/ SuccessfulWrite(i)
  \/ \E j \in 1..MaxUrls : ProcessExits(i, j)

\* The thread pool of lines 456-474.
NextPool ==
  \/ MainStartThread
  \/ MainJoin
  \/ MainReport
  \/ \E i \in Lanes : Lane(i)

Next ==
  \/ MainRead
  \/ MainSamplePick
  \/ MainSampleDone
  \/ MainThreads
  \/ NextPool

\* The program as it is.
Spec == Init /\ [][Next]_vars

\* The steps of the main thread from read_file to create_report.
MainStep ==
  \/ MainRead
  \/ MainSamplePick
  \/ MainSampleDone
  \/ MainThreads
  \/ MainStartThread
  \/ MainJoin
  \/ MainReport

\* The program with its threads scheduled fairly: the main thread and every
\* started thread get to take their next step, and a process that is being
\* read ends its output and exits (the read loop and process.wait() return).
SpecLive ==
  /\ Spec
  /\ WF_vars(MainStep)
  /\ \A i \in Lanes : WF_vars(Lane(i))

\* The thread pool alone (lines 456-474), entered with any thread count that
\* lines 447-450 compute and any list main hands it: the whole file, or a
\* sample (here the first rows of a file ten times as long).
PoolFile(u, s) ==
  IF s /\ Len(u) > 1 THEN u \o [p \in 1..(9 * Len(u)) |-> UrlA] ELSE u

InitPool ==
  \E u \in Inputs, s \in BOOLEAN, t \in 1..MaxThreads :
    /\ Boot(PoolFile(u, s), ~s, t + 1, "start", u, s,
            IF s THEN [j \in 1..Len(u) |-> j] ELSE <<>>, t)
    /\ nfiles = 1
    /\ config = FullConfig(~s)

SpecPool == InitPool /\ [][NextPool]_vars

\* sample_urls alone, on files long enough for a sample of several rows.
InitSample ==
  \E m \in 1..MaxSample :
    /\ Boot(InputOfLen(m), FALSE, 1, "read", <<>>, FALSE, <<>>, 0)
    /\ nfiles = 1
    /\ config = FullConfig(FALSE)

NextSample ==
  \/ MainRead
  \/ MainSamplePick
  \/ MainSampleDone

SpecSample == InitSample /\ [][NextSample]_vars

\* The whole main guard, from the directory listing to archive_file, for
\* any directory and any config.JSON.
InitMain ==
  \E f \in Inputs, cpu \in 1..MaxCpu, c \in Configs, n \in 0..2 :
    /\ Boot(f, FALSE, cpu, "files", <<>>, FALSE, <<>>, 0)
    /\ nfiles = n
    /\ config = c

NextMain ==
  \/ MainFiles
  \/ MainConfig
  \/ Next
  \/ MainConfigAgain
  \/ MainFinish

SpecMain == InitMain /\ [][NextMain]_vars

\* ------------------------------------------------------------ properties
\* The main thread has reached the report step (all threads joined).
AtReport == mainpc \in {"report", "done"}

\* Rows of table df whose URL column is u.
Rows(df, u) == Cardinality({p \in 1..Len(df) : df[p][1] = u})

\* Rows of the three tables together whose URL column is u.
RowsOverall(u) ==
  Rows(invalid_url, u) + Rows(security_check_failed, u)
    + Rows(security_check_successful, u)

\* The Targets (lane, position) the lanes have taken from their lists so far.
Taken == {t \in Lanes \X (1..MaxUrls) : t[2] <= k[t[1]]}

\* C11: when the run has been aborted over config.JSON (it cannot be opened
\* or parsed, or lacks a key that is read), no URL has been taken by a lane,
\* no log file opened, no process launched, no row written and no report made.
C11_PreflightAbort ==
  mainpc = "abort_config" =>
    /\ \A i \in Lanes : pc[i] = "none" /\ k[i] = 0
    /\ opened = {} /\ launched = {}
    /\ appended = NoTables
    /\ invalid_url = <<>>
    /\ security_check_failed = <<>>
    /\ security_check_successful = <<>>
    /\ report = <<>>

\* C12: every row of security_check_successful is (url, "Success", overall
\* grade, grade cap reasons, grade warning), every row of
\* security_check_failed is (url, status) whose status is a status value and
\* not a URL, and every row of invalid_url is (url, "Invalid URL").
C12_RowShape ==
  /\ \A n \in 1..Len(security_check_successful) :
        LET row == security_check_successful[n] IN
          Len(row) = 5 /\ row[1] \in Urls /\ row[2] = "Success"
  /\ \A n \in 1..Len(security_check_failed) :
        LET row == security_check_failed[n] IN
          Len(row) = 2 /\ row[1] \in Urls /\ row[2] \notin Urls
  /\ \A n \in 1..Len(invalid_url) :
        LET row == invalid_url[n] IN
          Len(row) = 2 /\ row[1] \in Urls /\ row[2] = "Invalid URL"

\* C13: once the number of threads has been settled, it is the number of
\* CPUs minus one, and 1 on a machine with a single CPU.
C13_DefaultConcurrency ==
  mainpc \in {"start", "report", "done"} =>
    threads = (IF cpu_count > 1 THEN cpu_count - 1 ELSE 1)

\* The work lists of the first n lanes, one after the other.
RECURSIVE ConcatData(_)
ConcatData(n) == IF n = 0 THEN <<>> ELSE ConcatData(n - 1) \o data[n]

\* C14: once every shard has been dealt with, the work lists of the lanes
\* concatenated in shard order are the URL list (full or sampled), their
\* lengths differ by at most 1, and a lane was started exactly for the
\* non-empty ones.
C14_Partitioning ==
  (mainpc \in {"start", "report", "done"} /\ spawned = threads) =>
    /\ ConcatData(threads) = urls
    /\ \A i, j \in 1..threads : Len(data[i]) - Len(data[j]) <= 1
    /\ \A i \in 1..threads : pc[i] # "none" <=> data[i] # <<>>

\* C15: at every moment each lane has at most one external process that it
\* launched and that has not terminated.
C15_OneScanInFlight ==
  \A i \in Lanes : Cardinality({t \in running : t[1] = i}) <= 1

\* A value free of escape sequences of any kind.
EscapeFree(value) == \A p \in 1..Len(value) : ~IsEscape(value[p])

\* C16: the values held for overall grade, grade cap reasons and grade
\* warning, in a lane and in the rows of security_check_successful, contain
\* no escape sequence, colour or other.
C16_EscapeFreeValues ==
  /\ \A i \in Lanes :
        /\ EscapeFree(overall_grade[i])
        /\ EscapeFree(grade_cap_reasons[i])
        /\ EscapeFree(grade_warning[i])
  /\ \A n \in 1..Len(security_check_successful) :
        \A c \in 3..5 : EscapeFree(security_check_successful[n][c])

C18_Progress ==
  <>(/\ mainpc = "done"
     /\ \A i \in 1..threads :
          pc[i] \in {"none", "done"} /\ k[i] = Len(data[i]))

\* C19: a lane holds an open log file only while it is inside the read loop
\* of check_url_security; between two URLs, after an early return, after an
\* exception and after it has finished, its log file is closed.
C19_LogFileReleased ==
  \A i \in Lanes : logfile[i] # "" => pc[i] = "read"

\* A lane back in the loop of thread_work after the early return of a
\* duplicate start marker: the process is still running, the log is closed.
C19_Witness ==
  \E i \in Lanes :
    /\ pc[i] = "loop"
    /\ <<i, k[i]>> \in running
    /\ <<i, k[i]>> \in opened
    /\ logfile[i] = ""

\* C1: at the report step the three tables together hold as many rows as
\* the run was given URLs, and every URL of the run has a row in some table.
C1_Coverage ==
  AtReport =>
    /\ Len(invalid_url) + Len(security_check_failed)
         + Len(security_check_successful) = Len(urls)
    /\ \A p \in 1..Len(urls) : RowsOverall(urls[p]) >= 1

\* C2: in every state each Target taken so far has at most one row over the
\* three tables: for every URL, the rows that name it are no more than the
\* Targets taken so far that hold it.
C2_Disjoint ==
  \A u \in Urls :
    RowsOverall(u) <= Cardinality({t \in Taken : data[t[1]][t[2]] = u})

\* A finished run with one row in InvalidURLs and one in SuccessfulScans.
C2_Witness ==
  /\ mainpc = "done"
  /\ Len(invalid_url) = 1
  /\ Len(security_check_successful) = 1

C4_ExitCodeMapping ==
  [][\A i \in Lanes :
       /\ (pc[i] = "wait" /\ pc'[i] # "wait") =>
            pc'[i] = IF return_code'[i] = 0 THEN "successful_write"
                                             ELSE "failed_write"
       /\ (pc[i] = "successful_write" /\ pc'[i] = "loop") =>
            /\ return_code[i] = 0
            /\ security_check_successful' =
                 Append(security_check_successful,
                        <<Url(i), "Success", overall_grade[i],
                          grade_cap_reasons[i], grade_warning[i]>>)
            /\ ~graded[i] =>
                 /\ overall_grade[i] = <<>>
                 /\ grade_cap_reasons[i] = <<>>
                 /\ grade_warning[i] = <<>>
            /\ UNCHANGED <<invalid_url, security_check_failed>>
       /\ (pc[i] = "failed_write" /\ pc'[i] = "loop") =>
            /\ return_code[i] # 0
            /\ Len(security_check_failed') = Len(security_check_failed) + 1
            /\ LET row == security_check_failed'[Len(security_check_failed')]
               IN Len(row) = 2 /\ row[1] = Url(i)
            /\ SubSeq(security_check_failed', 1, Len(security_check_failed))
                 = security_check_failed
            /\ UNCHANGED <<invalid_url, security_check_successful>>
    ]_vars

\* A finished run whose scan exited 0 after a grade line: the row in
\* SuccessfulScans carries the grade.
C4_Witness ==
  /\ mainpc = "done"
  /\ \E p \in 1..Len(security_check_successful) :
       security_check_successful[p][3] = <<"A+">>
  /\ Len(security_check_failed) = 1

\* C5: when a second start marker ends the scan of a URL early, the URL has
\* a row in FailedScans by the time the lane turns to its next URL.
C5_DuplicateStartRecorded ==
  [][\A i \in Lanes :
       (pc[i] = "read" /\ pc'[i] = "loop") =>
         Rows(security_check_failed', Url(i)) >= 1
    ]_vars

\* C6 as claimed: a scan whose output ended without a start marker for its
\* URL is never about to be recorded in SuccessfulScans, whatever its exit
\* status.
C6_MissingStartFails ==
  \A i \in Lanes : pc[i] = "successful_write" => check_started[i]

\* C6 as amended: a scan whose output ended without a start marker for its
\* URL is recorded by its exit status alone: a row of the URL is added to
\* SuccessfulScans on status 0 and to FailedScans on any other status.
C6_MissingStartByExitStatus ==
  [][\A i \in Lanes :
       ~check_started[i] =>
         /\ (pc[i] = "wait" /\ pc'[i] # "wait") =>
              pc'[i] = IF return_code'[i] = 0 THEN "successful_write"
                                               ELSE "failed_write"
         /\ (pc[i] = "successful_write" /\ pc'[i] = "loop") =>
              /\ return_code[i] = 0
              /\ Rows(security_check_successful', Url(i))
                   = Rows(security_check_successful, Url(i)) + 1
              /\ security_check_failed' = security_check_failed
         /\ (pc[i] = "failed_write" /\ pc'[i] = "loop") =>
              /\ return_code[i] # 0
              /\ Rows(security_check_failed', Url(i))
                   = Rows(security_check_failed, Url(i)) + 1
              /\ security_check_successful' = security_check_successful
    ]_vars

\* A scan that exited 0 without a start marker is about to be recorded.
C6_Witness ==
  \E i \in Lanes :
    /\ pc[i] = "successful_write"
    /\ ~check_started[i]
    /\ nread[i] > 0

\* The Targets whose process could not be started.
LaunchFailed == opened \ launched

\* C7: a launch error does not end the lane: the lane is never dead, the URL
\* gets a row in FailedScans once the lane has left it, and a lane that has
\* ended has taken every URL of its list.
C7_LaunchErrorContained ==
  \A t \in LaunchFailed :
    LET i == t[1]
    IN /\ pc[i] # "dead"
       /\ (k[i] > t[2] \/ pc[i] \in {"loop", "done"}) =>
            Rows(security_check_failed, data[i][t[2]]) >= 1
       /\ Joined(i) => k[i] = Len(data[i])

\* C8: at the report step every lane has ended and has taken every URL of
\* its shard, and once the report is written the tables still are what the
\* report step read.
C8_JoinBarrier ==
  /\ AtReport =>
       \A i \in 1..threads :
         /\ Joined(i)
         /\ k[i] = Len(ArraySplit(urls, threads)[i])
  /\ mainpc = "done" =>
       report = invalid_url \o security_check_failed
                  \o security_check_successful

\* The Targets check_url_validity has rejected and recorded.
Rejected ==
  {t \in Taken : /\ ~ValidatorsUrl(data[t[1]][t[2]])
                 /\ ~(t[2] = k[t[1]] /\ pc[t[1]] = "invalid_write")}

\* C9: every row of InvalidURLs is (an invalid URL, "Invalid URL"); an
\* invalid URL has its row as soon as check_url_validity has returned for it
\* and never has a log file or a process; so a valid URL never has a row
\* there.
C9_ValidationGate ==
  /\ \A p \in 1..Len(invalid_url) :
       /\ ~ValidatorsUrl(invalid_url[p][1])
       /\ invalid_url[p][2] = "Invalid URL"
  /\ \A t \in Taken :
       ~ValidatorsUrl(data[t[1]][t[2]]) =>
         t \notin (opened \cup launched \cup running)
  /\ \A u \in Urls :
       Rows(invalid_url, u)
         = Cardinality({t \in Rejected : data[t[1]][t[2]] = u})

\* A lane that has finished a list holding an invalid URL and a scanned one.
C9_Witness ==
  \E i \in Lanes :
    /\ pc[i] = "done"
    /\ Len(invalid_url) = 1
    /\ launched # {}

\* C10: the list sample_urls returns has max(1, n div 10) rows (10 for 100),
\* each the row of the file at the position drawn, and no position is drawn
\* twice.
C10_Sampling ==
  /\ SampleSize(100) = 10
  /\ sampled =>
       /\ Len(urls) = (IF Len(file) \div 10 > 1 THEN Len(file) \div 10 ELSE 1)
       /\ Len(sample_list) = Len(urls)
       /\ \A j \in 1..Len(urls) :
            /\ sample_list[j] \in 1..Len(file)
            /\ urls[j] = file[sample_list[j]]
       /\ \A j1, j2 \in 1..Len(urls) :
            j1 # j2 => sample_list[j1] # sample_list[j2]

\* A sample of two rows has been returned.
C10_Witness == sampled /\ Len(urls) = 2 /\ mainpc = "threads"

====
